---- MODULE Spec2Model ----
(***************************************************************************)
(* Model of the pre-split preparation core of dataScienceProjektGr3:      *)
(*   targets.py   compute_normalized_slope, add_normalized_trend_direction *)
(*   features.py  generate_features                                        *)
(*   main.py      the pipeline run: load, targets, features, dropna,       *)
(*                features.txt, chronological split, persist               *)
(*                                                                         *)
(* A table (pandas DataFrame) is a record                                  *)
(*   index   : "range" or "datetime"                                       *)
(*   idxname : the name of the index ("" when it has none)                 *)
(*   idx     : the index values (minutes) when index = "datetime"          *)
(*   columns : the column names, in column order                           *)
(*   data    : column name -> sequence of values, one per row              *)
(* A column name is a pair <<kind, span>>, e.g. <<"ema", 2>> for "ema_2m". *)
(*                                                                         *)
(* A float is an exact rational <<n, d>> in lowest terms with d > 0;       *)
(* NaN is <<0, 0>>.  Prices are positive, so no division by zero other     *)
(* than the ones the code guards occurs and no infinity is needed.         *)
(* A quotient whose denominator is stabilised by the literal 1e-8 is kept  *)
(* unevaluated as the pair <<numerator, base>>, standing for               *)
(* numerator / (base + 1e-8)   (or numerator / (sqrt(base) + 1e-8) for the *)
(* z-scores, whose base is the rolling variance).                          *)
(*                                                                         *)
(* bars is the bars file main.py reads, params the loaded params.yaml and  *)
(* processed the files under PROCESSED_PATH.                               *)
(***************************************************************************)
EXTENDS Integers, Sequences, FiniteSets, TLC

VARIABLES df, call, ret, runs, bars, params, processed

vars == <<df, call, ret, runs, bars, params, processed>>

(***************************************************************************)
(* Bounds of the model                                                     *)
(***************************************************************************)
MaxLen == 3
MaxPeriod == 3
MaxSpan == 2
MaxWindow == 2

(***************************************************************************)
(* Float arithmetic (numpy float64), exact                                 *)
(***************************************************************************)
Abs(x) == IF x < 0 THEN -x ELSE x

RECURSIVE GCD(_, _)
GCD(a, b) == IF b = 0 THEN a ELSE GCD(b, a % b)

NaN == <<0, 0>>

IsNaN(r) == r[2] = 0

Rat(n, d) ==
    IF d = 0 THEN NaN
    ELSE LET g == GCD(Abs(n), Abs(d))
             s == IF d < 0 THEN -1 ELSE 1
         IN  <<s * (n \div g), s * (d \div g)>>

Num(k) == <<k, 1>>

Zero == Num(0)

One == Num(1)

RAdd(a, b) ==
    IF IsNaN(a) \/ IsNaN(b) THEN NaN
    ELSE LET g == GCD(a[2], b[2])
         IN  Rat(a[1] * (b[2] \div g) + b[1] * (a[2] \div g), (a[2] \div g) * b[2])

RNeg(a) == IF IsNaN(a) THEN NaN ELSE <<-a[1], a[2]>>

RSub(a, b) == RAdd(a, RNeg(b))

RMul(a, b) ==
    IF IsNaN(a) \/ IsNaN(b) THEN NaN
    ELSE LET g1 == GCD(Abs(a[1]), b[2])
             g2 == GCD(Abs(b[1]), a[2])
         IN  IF a[1] = 0 \/ b[1] = 0 THEN Zero
             ELSE <<(a[1] \div g1) * (b[1] \div g2), (a[2] \div g2) * (b[2] \div g1)>>

\* a / b; b = 0 does not occur with a # 0 (prices are positive), 0/0 is NaN
RDiv(a, b) ==
    IF IsNaN(a) \/ IsNaN(b) \/ b[1] = 0 THEN NaN
    ELSE IF b[1] > 0 THEN RMul(a, <<b[2], b[1]>>)
    ELSE RMul(a, <<-b[2], -b[1]>>)

\* n1/d1 < n2/d2 for d1, d2 > 0, by integer parts and then the reciprocals
\* of the fractional parts (no cross product, so no overflow)
RECURSIVE FracLess(_, _, _, _)
FracLess(n1, d1, n2, d2) ==
    LET q1 == n1 \div d1
        q2 == n2 \div d2
        r1 == n1 % d1
        r2 == n2 % d2
    IN  IF q1 # q2 THEN q1 < q2
        ELSE IF r2 = 0 THEN FALSE
        ELSE IF r1 = 0 THEN TRUE
        ELSE FracLess(d2, r2, d1, r1)

\* a < b; every comparison with NaN is False
RLt(a, b) == ~IsNaN(a) /\ ~IsNaN(b) /\ FracLess(a[1], a[2], b[1], b[2])

RGt(a, b) == RLt(b, a)

RECURSIVE RSum(_)
RSum(s) == IF Len(s) = 0 THEN Zero ELSE RAdd(s[1], RSum(Tail(s)))

\* np.mean; of an empty array it is NaN (and a warning)
Mean(s) == IF Len(s) = 0 THEN NaN ELSE RDiv(RSum(s), Num(Len(s)))

Centered(s) == LET m == Mean(s) IN [k \in DOMAIN s |-> RSub(s[k], m)]

\* np.var, ddof = 0
Var(s) == LET c == Centered(s) IN Mean([k \in DOMAIN c |-> RMul(c[k], c[k])])

\* np.arange(period, dtype=float); empty for period <= 0
Arange(period) == [k \in 1..period |-> Num(k - 1)]

\* a[lo:hi] on a 0-based array held as a 1-based sequence, 0 <= lo
Slice(a, lo, hi) ==
    LET stop == IF hi > Len(a) THEN Len(a) ELSE hi
    IN  IF stop <= lo THEN <<>> ELSE [k \in 1..(stop - lo) |-> a[lo + k]]

Range(s) == {s[k] : k \in DOMAIN s}

(***************************************************************************)
(* Tables                                                                  *)
(***************************************************************************)
Col(kind) == <<kind, 0>>

SpanCol(kind, span) == <<kind, span>>

HasCol(t, name) == name \in Range(t.columns)

NRows(t) == IF Len(t.columns) = 0 THEN Len(t.idx) ELSE Len(t.data[t.columns[1]])

\* df[name] = values
SetCol(t, name, values) ==
    [t EXCEPT !.columns = IF name \in Range(@) THEN @ ELSE Append(@, name),
              !.data = (name :> values) @@ @]

(***************************************************************************)
(* targets.py                                                              *)
(***************************************************************************)
threshold == <<1, 100000000>>

\* slopes[i] for one row i (0-based) the loop visits
NormalizedSlopeAt(prices, period, i) ==
    LET x == Arange(period)
        x_centered == Centered(x)
        x_var == Var(x)
        y == Slice(prices, i + 1, i + 1 + period)
        y_mean == Mean(y)
        y_centered == Centered(y)
        slope == RDiv(RSum([k \in DOMAIN x |-> RMul(x_centered[k], y_centered[k])]),
                      RMul(x_var, Num(period - 1)))
    IN  IF RGt(y_mean, Zero) THEN RDiv(slope, y_mean) ELSE Zero

\* the loop stopping one row early
LoopEndShort(n, period) == n - period - 1

\* for i in range(n - period): the rows visited are 0 .. LoopEnd - 1
LoopEnd(n, period) == n - period

\* [raised |-> an exception left the function, slopes |-> the returned Series]
compute_normalized_slope(prices, period) ==
    LET n == Len(prices)
        x_var == Var(Arange(period))
        Visited(i) == i < LoopEnd(n, period)
                      /\ ~(Len(Slice(prices, i + 1, i + 1 + period)) < period)
    IN  IF x_var = Zero
        THEN [raised |-> FALSE, slopes |-> [j \in 1..n |-> NaN]]
        ELSE IF LoopEnd(n, period) > n
        THEN [raised |-> TRUE, slopes |-> <<>>]      \* slopes[n] = ...: IndexError
        ELSE [raised |-> FALSE,
              slopes |-> [j \in 1..n |-> IF Visited(j - 1)
                                         THEN NormalizedSlopeAt(prices, period, j - 1)
                                         ELSE NaN]]

\* the dead zone without its boundary values: >= and <= for > and <
DirectionInclusive(t) ==
    IF ~IsNaN(t) /\ ~RLt(t, threshold) THEN Num(1)
    ELSE IF ~IsNaN(t) /\ ~RGt(t, RNeg(threshold)) THEN Num(-1)
    ELSE Zero

\* np.where(t > threshold, 1, np.where(t < -threshold, -1, 0)) on one value
Direction(t) ==
    IF RGt(t, threshold) THEN Num(1)
    ELSE IF RLt(t, RNeg(threshold)) THEN Num(-1)
    ELSE Zero

TargetCol(period) == SpanCol("target_trend", period)

DirectionCol(period) == SpanCol("target_direction", period)

\* lines 98-108: the two columns of one period
WithTargets(t, period, slopes) ==
    SetCol(SetCol(t, TargetCol(period), slopes),
           DirectionCol(period), [j \in DOMAIN slopes |-> Direction(slopes[j])])

\* the loop of add_normalized_trend_direction over the periods from k on;
\* r is compute_normalized_slope's outcome for period k
RECURSIVE AddPeriods(_, _, _, _)
AfterSlope(t, prices, prediction_periods, k, r) ==
    IF r.raised THEN [raised |-> TRUE, table |-> t]
    ELSE AddPeriods(WithTargets(t, prediction_periods[k], r.slopes),
                    prices, prediction_periods, k + 1)

AddPeriods(t, prices, prediction_periods, k) ==
    IF k > Len(prediction_periods) THEN [raised |-> FALSE, table |-> t]
    ELSE AfterSlope(t, prices, prediction_periods, k,
                    compute_normalized_slope(prices, prediction_periods[k]))

NoTable == [index |-> "range", idxname |-> "", idx |-> <<>>, columns |-> <<>>,
            data |-> <<>>]

Returned(r) ==
    IF r.raised THEN [raised |-> TRUE, table |-> NoTable, feature_list |-> <<>>]
    ELSE [raised |-> FALSE, table |-> r.table, feature_list |-> <<>>]

\* [raised, table, feature_list]; nothing is returned when raised
add_normalized_trend_direction(t, prediction_periods, price_col) ==
    IF ~HasCol(t, price_col)
    THEN [raised |-> TRUE, table |-> NoTable, feature_list |-> <<>>]   \* KeyError
    ELSE Returned(AddPeriods(t, t.data[price_col], prediction_periods, 1))

(***************************************************************************)
(* features.py                                                             *)
(***************************************************************************)
Raised == [raised |-> TRUE, table |-> NoTable, feature_list |-> <<>>]

\* a timestamp cell is <<dtype, minute>>; pd.to_datetime parses a string cell
\* and leaves a datetime64 cell as it is
to_datetime(cell) == <<"datetime64", cell[2]>>

Stamp(minute) == <<"datetime64", minute>>

\* the .dt accessors; minute 0 is a Monday, 00:00
Hour(minute) == (minute \div 60) % 24

MinuteOfDay(minute) == (Hour(minute) * 60) + (minute % 60)

DayOfWeek(minute) == (minute \div 1440) % 7

\* the row order that sorts the keys ascending (the keys are unique):
\* position k of the result holds row SortOrder(keys)[k]
SortOrder(keys) ==
    [k \in DOMAIN keys |->
        CHOOSE i \in DOMAIN keys : Cardinality({j \in DOMAIN keys : keys[j] < keys[i]}) = k - 1]

Reorder(t, order) ==
    [t EXCEPT !.data = [c \in DOMAIN @ |-> [k \in DOMAIN order |-> @[c][order[k]]]],
              !.idx = IF Len(@) = 0 THEN @ ELSE [k \in DOMAIN order |-> @[order[k]]]]

\* df.sort_values("timestamp").reset_index(drop=True)
SortValuesResetIndex(t) ==
    LET ts == t.data[Col("timestamp")]
        sorted == Reorder(t, SortOrder([k \in DOMAIN ts |-> ts[k][2]]))
    IN  [sorted EXCEPT !.index = "range", !.idxname = "", !.idx = <<>>]

\* df.sort_index() on a DatetimeIndex
SortIndex(t) == Reorder(t, SortOrder(t.idx))

\* df.reset_index(): the index becomes column 0, named after the index
\* ("index" when it has no name)
ResetIndex(t) ==
    LET name == Col(IF t.idxname = "" THEN "index" ELSE t.idxname)
    IN  [index |-> "range", idxname |-> "", idx |-> <<>>,
         columns |-> <<name>> \o t.columns,
         data |-> (name :> [k \in DOMAIN t.idx |-> Stamp(t.idx[k])]) @@ t.data]

\* df.rename(columns={old: new})
Rename(t, old, new) ==
    [t EXCEPT !.columns = [k \in DOMAIN @ |-> IF @[k] = old THEN new ELSE @[k]],
              !.data = [c \in (DOMAIN @ \ {old}) \cup {new} |->
                            IF c = new THEN @[old] ELSE @[c]]]

NotNaN(v) == ~IsNaN(v)

\* the observations of s.rolling(window, min_periods=1) at row i (1-based)
Window(s, window, i) ==
    SelectSeq(Slice(s, IF i - window < 0 THEN 0 ELSE i - window, i), NotNaN)

min_periods == 1

\* rolling(window).mean() with the default min_periods (= window)
RollingMeanFullWindow(s, window) ==
    [i \in DOMAIN s |->
        LET obs == Window(s, window, i)
        IN  IF Len(obs) < window THEN NaN ELSE Mean(obs)]

\* s.rolling(window, min_periods=1).mean()
RollingMean(s, window) ==
    [i \in DOMAIN s |->
        LET obs == Window(s, window, i)
        IN  IF Len(obs) < min_periods THEN NaN ELSE Mean(obs)]

\* the square of s.rolling(window, min_periods=1).std(), ddof = 1: NaN with
\* fewer than two observations
RollingVar(s, window) ==
    [i \in DOMAIN s |->
        LET obs == Window(s, window, i)
            c == Centered(obs)
        IN  IF Len(obs) < min_periods \/ Len(obs) < 2 THEN NaN
            ELSE RDiv(RSum([k \in DOMAIN c |-> RMul(c[k], c[k])]), Num(Len(obs) - 1))]

\* num / (base + 1e-8), unevaluated; NaN when an operand is
EpsQuot(num, base) == IF IsNaN(num) \/ IsNaN(base) THEN <<NaN, NaN>> ELSE <<num, base>>

IsNaNQ(q) == IsNaN(q[1]) \/ IsNaN(q[2])

\* s.pct_change()
PctChange(s) ==
    [i \in DOMAIN s |-> IF i = 1 THEN NaN ELSE RSub(RDiv(s[i], s[i - 1]), One)]

\* s.diff(-1) negated: the difference to the NEXT row
DiffForward(s) == [i \in DOMAIN s |-> IF i = Len(s) THEN NaN ELSE RSub(s[i + 1], s[i])]

\* s.diff()
Diff(s) == [i \in DOMAIN s |-> IF i = 1 THEN NaN ELSE RSub(s[i], s[i - 1])]

\* s.ewm(span=span, adjust=False).mean(): y[0] = x[0],
\* y[i] = (1 - alpha) * y[i-1] + alpha * x[i] with alpha = 2 / (span + 1)
RECURSIVE EwmAt(_, _, _)
EwmAt(s, span, i) ==
    LET alpha == Rat(2, span + 1)
    IN  IF i = 1 THEN s[1]
        ELSE RAdd(RMul(RSub(One, alpha), EwmAt(s, span, i - 1)), RMul(alpha, s[i]))

\* the recurrence seeded with 0 instead of the first value:
\* y[0] = alpha * x[0]
RECURSIVE EwmAtZeroSeeded(_, _, _)
EwmAtZeroSeeded(s, span, i) ==
    RAdd(RMul(RSub(One, Rat(2, span + 1)),
              IF i = 1 THEN Zero ELSE EwmAtZeroSeeded(s, span, i - 1)),
         RMul(Rat(2, span + 1), s[i]))

EwmZeroSeeded(s, span) == [i \in DOMAIN s |-> EwmAtZeroSeeded(s, span, i)]

Ewm(s, span) == [i \in DOMAIN s |-> EwmAt(s, span, i)]

\* (a - rolling mean) / (rolling std + 1e-8)
ZScore(s, window) ==
    LET m == RollingMean(s, window)
        v == RollingVar(s, window)
    IN  [i \in DOMAIN s |-> EpsQuot(RSub(s[i], m[i]), v[i])]

EmaCol(period) == SpanCol("ema", period)

Ok(t, feature_list) == [raised |-> FALSE, table |-> t, feature_list |-> feature_list]

\* lines 61-68: price_normalized and return_1m
PriceFeatures(t, prices, rolling_mean) ==
    Ok(SetCol(SetCol(t, Col("price_normalized"),
                     [i \in DOMAIN prices |-> RSub(RDiv(prices[i], rolling_mean[i]), One)]),
              Col("return_1m"), PctChange(prices)),
       <<Col("price_normalized"), Col("return_1m")>>)

\* lines 72-85: the three columns of one EMA span
WithEma(t, prices, period, z_norm_window, ema) ==
    SetCol(SetCol(SetCol(t, EmaCol(period), ema),
                  SpanCol("ema_normalized", period),
                  [i \in DOMAIN ema |-> RSub(RDiv(ema[i], prices[i]), One)]),
           SpanCol("ema_z", period), ZScore(ema, z_norm_window))

\* lines 71-85, the loop over ema_periods from position k on;
\* st = [raised, table, feature_list]
RECURSIVE EmaLoop(_, _, _, _, _)
EmaLoop(st, prices, ema_periods, z_norm_window, k) ==
    IF k > Len(ema_periods) THEN st
    ELSE IF ema_periods[k] < 1 THEN Raised       \* ValueError: span must satisfy: span >= 1
    ELSE EmaLoop(Ok(WithEma(st.table, prices, ema_periods[k], z_norm_window,
                            Ewm(prices, ema_periods[k])),
                    st.feature_list \o <<SpanCol("ema_normalized", ema_periods[k]),
                                         SpanCol("ema_z", ema_periods[k])>>),
                 prices, ema_periods, z_norm_window, k + 1)

\* lines 94-108: the four columns of one slope span
WithSlopes(t, prices, period, slope, slope2) ==
    SetCol(SetCol(SetCol(SetCol(t, SpanCol("slope_ema", period), slope),
                         SpanCol("slope_ema_normalized", period),
                         [i \in DOMAIN slope |-> EpsQuot(slope[i], prices[i])]),
                  SpanCol("slope2_ema", period), slope2),
           SpanCol("slope2_ema_normalized", period),
           [i \in DOMAIN slope2 |-> EpsQuot(slope2[i], prices[i])])

\* the slopes of a span without an EMA column taken from another EMA column
\* of the table, when there is one
SlopeSourceAny(t, period) ==
    IF HasCol(t, EmaCol(period)) \/ \A c \in Range(t.columns) : c[1] # "ema"
    THEN EmaCol(period)
    ELSE CHOOSE c \in Range(t.columns) : c[1] = "ema"

\* line 89: the column the slopes of a span are taken from
SlopeSource(t, period) == EmaCol(period)

\* lines 88-108, the loop over slope_periods from position k on
RECURSIVE SlopeLoop(_, _, _, _)
SlopeLoop(st, prices, slope_periods, k) ==
    IF k > Len(slope_periods) THEN st
    ELSE IF ~HasCol(st.table, SlopeSource(st.table, slope_periods[k]))
    THEN SlopeLoop(st, prices, slope_periods, k + 1)
    ELSE SlopeLoop(Ok(WithSlopes(st.table, prices, slope_periods[k],
                                 Diff(st.table.data[SlopeSource(st.table, slope_periods[k])]),
                                 Diff(Diff(st.table.data[SlopeSource(st.table, slope_periods[k])]))),
                      st.feature_list \o <<SpanCol("slope_ema_normalized", slope_periods[k]),
                                           SpanCol("slope2_ema_normalized", slope_periods[k])>>),
                   prices, slope_periods, k + 1)

\* lines 110-114: price_z
PriceZ(st, prices, z_norm_window) ==
    Ok(SetCol(st.table, Col("price_z"), ZScore(prices, z_norm_window)),
       st.feature_list \o <<Col("price_z")>>)

\* lines 116-120: price_range, when the table has high and low
PriceRange(st, prices) ==
    IF HasCol(st.table, Col("high")) /\ HasCol(st.table, Col("low"))
    THEN Ok(SetCol(st.table, Col("price_range"),
                   [i \in DOMAIN prices |->
                       EpsQuot(RSub(st.table.data[Col("high")][i],
                                    st.table.data[Col("low")][i]), prices[i])]),
            st.feature_list \o <<Col("price_range")>>)
    ELSE st

\* lines 122-148: the calendar features of the timestamps (minutes)
TimeFeatures(st, minutes) ==
    Ok(SetCol(SetCol(SetCol(st.table,
           Col("minute_of_day"), [i \in DOMAIN minutes |-> MinuteOfDay(minutes[i])]),
           Col("day_of_week"), [i \in DOMAIN minutes |-> DayOfWeek(minutes[i])]),
           Col("hour_of_day"), [i \in DOMAIN minutes |-> Hour(minutes[i])]),
       st.feature_list \o <<Col("minute_of_day"), Col("day_of_week"), Col("hour_of_day")>>)

\* the timestamps the calendar features read: the column's, else the index's
Minutes(t, has_timestamp_column) ==
    IF has_timestamp_column
    THEN [i \in DOMAIN t.data[Col("timestamp")] |-> t.data[Col("timestamp")][i][2]]
    ELSE t.idx

\* the index column left under its own name
RenameFirstSkipped(t) == t

\* lines 153-155: after reset_index, column 0 is named "timestamp"
RenameFirst(t) ==
    IF t.columns[1] # Col("timestamp") THEN Rename(t, t.columns[1], Col("timestamp")) ELSE t

\* lines 150-159: timestamp is a column, not the index
TimestampColumn(st, has_timestamp_column) ==
    IF ~has_timestamp_column
    THEN Ok(RenameFirst(ResetIndex(st.table)), st.feature_list)
    ELSE IF st.table.index = "datetime"
    THEN Ok([st.table EXCEPT !.index = "range", !.idxname = "", !.idx = <<>>], st.feature_list)
    ELSE st

\* lines 110-159 on the outcome of the two loops
AfterLoops(st, prices, z_norm_window, has_timestamp_column) ==
    IF st.raised THEN Raised
    ELSE TimestampColumn(
             TimeFeatures(PriceRange(PriceZ(st, prices, z_norm_window), prices),
                          Minutes(st.table, has_timestamp_column)),
             has_timestamp_column)

\* lines 59-159 on the sorted table
FeaturesOfSorted(t, has_timestamp_column, ema_periods, slope_periods, z_norm_window, price_col) ==
    IF ~HasCol(t, price_col) THEN Raised                  \* KeyError
    ELSE IF z_norm_window < min_periods THEN Raised       \* ValueError from rolling()
    ELSE AfterLoops(
             SlopeLoop(EmaLoop(PriceFeatures(t, t.data[price_col],
                                             RollingMean(t.data[price_col], z_norm_window)),
                               t.data[price_col], ema_periods, z_norm_window, 1),
                       t.data[price_col], slope_periods, 1),
             t.data[price_col], z_norm_window, has_timestamp_column)

\* lines 46-55: the table in timestamp order
Sorted(t) ==
    IF HasCol(t, Col("timestamp"))
    THEN SortValuesResetIndex([t EXCEPT !.data[Col("timestamp")] =
                                            [k \in DOMAIN @ |-> to_datetime(@[k])]])
    ELSE SortIndex(t)

\* [raised, table, feature_list]; nothing is returned when raised
generate_features(t, ema_periods, slope_periods, z_norm_window, price_col) ==
    IF ~HasCol(t, Col("timestamp")) /\ t.index # "datetime"
    THEN Raised                                           \* ValueError, line 57
    ELSE FeaturesOfSorted(Sorted(t), HasCol(t, Col("timestamp")),
                          ema_periods, slope_periods, z_norm_window, price_col)

(***************************************************************************)
(* main.py                                                                 *)
(***************************************************************************)
\* params.yaml not loaded
NoParams == [prediction_periods |-> <<>>, ema_periods |-> <<>>, slope_periods |-> <<>>,
             z_norm_window |-> 0, train_date |-> <<"str", 0>>,
             validation_date |-> <<"str", 0>>, test_date |-> <<"str", 0>>]

\* a file that does not exist
Absent == <<<<"absent", 0>>>>

\* os.makedirs(processed_path, exist_ok=True) on a fresh location
NoFiles == [features_txt |-> Absent, train |-> NoTable, validation |-> NoTable,
            test |-> NoTable, written |-> FALSE]

symbol == "GRXEUR"

\* line 78: df["symbol"] = symbol
WithSymbol(t) == SetCol(t, Col("symbol"), [k \in 1..NRows(t) |-> <<symbol, 0>>])

\* lines 81-89: a DatetimeIndex becomes a column.  After reset_index the
\* index has no name, so line 86 is never reached: an index called
\* "datetime" is renamed, any other one is left under its own name and
\* "timestamp" is set to the new RangeIndex 0, 1, ...
IndexToColumn(t) ==
    IF t.index # "datetime" THEN [raised |-> FALSE, table |-> t]
    ELSE IF HasCol(t, Col(IF t.idxname = "" THEN "index" ELSE t.idxname))
    THEN [raised |-> TRUE, table |-> NoTable]      \* reset_index: cannot insert, already exists
    ELSE IF t.idxname = "datetime" /\ HasCol(t, Col("timestamp"))
    THEN [raised |-> TRUE, table |-> NoTable]      \* two "timestamp" columns: line 95 raises
    ELSE IF t.idxname = "datetime"
    THEN [raised |-> FALSE, table |-> Rename(ResetIndex(t), Col("datetime"), Col("timestamp"))]
    ELSE [raised |-> FALSE,
          table |-> SetCol(ResetIndex(t), Col("timestamp"),
                           [k \in 1..NRows(t) |-> <<"int64", k - 1>>])]

\* lines 92-96: the timestamp column is required, parsed and sorted on
SortedBars(r) ==
    IF r.raised \/ ~HasCol(r.table, Col("timestamp"))
    THEN [raised |-> TRUE, table |-> NoTable]      \* ValueError, line 93
    ELSE [raised |-> FALSE,
          table |-> SortValuesResetIndex(
                        [r.table EXCEPT !.data[Col("timestamp")] =
                                            [k \in DOMAIN @ |-> to_datetime(@[k])]])]

\* lines 77-96
Load(bars_file) == SortedBars(IndexToColumn(WithSymbol(bars_file)))

\* lines 112-119 on the outcome of lines 103-107
FeaturesOf(r, p) ==
    IF r.raised THEN Raised
    ELSE generate_features(r.table, p.ema_periods, p.slope_periods, p.z_norm_window,
                           Col("close"))

\* lines 103-119 on the outcome of the load
Enriched(loaded, p) ==
    IF loaded.raised THEN Raised
    ELSE FeaturesOf(add_normalized_trend_direction(loaded.table, p.prediction_periods,
                                                   Col("close")), p)

\* the columns holding epsilon-stabilised quotients, and those holding floats
QuotientKinds ==
    {"ema_z", "slope_ema_normalized", "slope2_ema_normalized", "price_z", "price_range"}

FloatKinds ==
    {"open", "high", "low", "close", "target_trend", "target_direction",
     "price_normalized", "return_1m", "ema", "ema_normalized", "slope_ema", "slope2_ema"}

\* pd.isna of one cell; timestamps, the symbol and the calendar integers are
\* never missing
isna(name, cell) ==
    IF name[1] \in QuotientKinds THEN IsNaNQ(cell)
    ELSE IF name[1] \in FloatKinds THEN IsNaN(cell)
    ELSE FALSE

\* the row numbers of a set in ascending order
RowSeq(rows) ==
    [k \in 1..Cardinality(rows) |->
        CHOOSE i \in rows : Cardinality({j \in rows : j < i}) = k - 1]

\* df[mask], the index left aside
SelectRows(t, rows) ==
    [t EXCEPT !.data = [c \in DOMAIN @ |-> [k \in DOMAIN rows |-> @[c][rows[k]]]]]

\* line 124: df.dropna().reset_index(drop=True)
dropna(t) ==
    SelectRows(t, RowSeq({i \in 1..NRows(t) :
                             \A c \in Range(t.columns) : ~isna(c, t.data[c][i])}))

\* lines 121-126 on the outcome of lines 77-119
Pruned(r) == IF r.raised THEN Raised ELSE Ok(dropna(r.table), r.feature_list)

\* lines 77-126: the enriched table without incomplete rows
Prepared(bars_file, p) == Pruned(Enriched(Load(bars_file), p))

NL == <<"\n", 0>>

\* lines 133-135: f.write(f"{feat}\n") for every feature, as the sequence of
\* names and line ends written
WriteLines(feature_list) ==
    [k \in 1..(2 * Len(feature_list)) |->
        IF k % 2 = 1 THEN feature_list[(k + 1) \div 2] ELSE NL]

\* features.txt written by every run
SaveFeaturesAlways(files, feature_list) ==
    [files EXCEPT !.features_txt = WriteLines(feature_list)]

\* lines 131-136
SaveFeatures(files, feature_list) ==
    IF files.features_txt = Absent
    THEN [files EXCEPT !.features_txt = WriteLines(feature_list)]
    ELSE files

\* a date pd.to_datetime cannot parse
Unparseable == <<"str", -1>>

Ts(t, i) == t.data[Col("timestamp")][i][2]

\* lines 145-147
Split(t, train_date_dt, validation_date_dt, test_date_dt) ==
    [train |-> SelectRows(t, RowSeq({i \in 1..NRows(t) : Ts(t, i) <= train_date_dt[2]})),
     validation |-> SelectRows(t, RowSeq({i \in 1..NRows(t) :
                                   Ts(t, i) > train_date_dt[2]
                                   /\ Ts(t, i) <= validation_date_dt[2]})),
     test |-> SelectRows(t, RowSeq({i \in 1..NRows(t) :
                                   Ts(t, i) > validation_date_dt[2]
                                   /\ Ts(t, i) <= test_date_dt[2]}))]

\* lines 152-158: to_parquet(..., index=False) of the three partitions
Persist(files, parts) ==
    [files EXCEPT !.train = parts.train, !.validation = parts.validation,
                  !.test = parts.test, !.written = TRUE]

\* the outcome of a run: [raised, table, feature_list, files]
Done(raised, t, feature_list, files) ==
    [raised |-> raised, table |-> t, feature_list |-> feature_list, files |-> files]

\* lines 141-158 once features.txt is dealt with
SplitAndPersist(files, t, feature_list, p) ==
    IF Unparseable \in {p.train_date, p.validation_date, p.test_date}
    THEN Done(TRUE, NoTable, <<>>, files)          \* pd.to_datetime raises
    ELSE Done(FALSE, t, feature_list,
              Persist(files, Split(t, to_datetime(p.train_date),
                                   to_datetime(p.validation_date),
                                   to_datetime(p.test_date))))

\* lines 128-158 on the outcome of lines 77-126
Finish(files, r, p) ==
    IF r.raised THEN Done(TRUE, NoTable, <<>>, files)
    ELSE SplitAndPersist(SaveFeatures(files, r.feature_list), r.table, r.feature_list, p)

(***************************************************************************)
(* Inputs                                                                  *)
(***************************************************************************)
\* the timestamp (minute) of the k-th bar in time: 23:58, 23:59, 00:00, ...
TimeOf(k) == 1437 + k

\* a table layout: which timestamp axis (a column of datetime64 or string
\* cells, a DatetimeIndex, both, none), whether the price column and the
\* high/low columns are there
Layouts ==
    { [tscol |-> "datetime64", index |-> "range", idxname |-> "", price |-> TRUE, hl |-> FALSE],
      [tscol |-> "str", index |-> "range", idxname |-> "", price |-> TRUE, hl |-> TRUE],
      [tscol |-> "none", index |-> "datetime", idxname |-> "datetime", price |-> TRUE, hl |-> TRUE],
      [tscol |-> "none", index |-> "datetime", idxname |-> "", price |-> TRUE, hl |-> FALSE],
      [tscol |-> "datetime64", index |-> "datetime", idxname |-> "datetime", price |-> TRUE, hl |-> FALSE],
      [tscol |-> "none", index |-> "range", idxname |-> "", price |-> TRUE, hl |-> FALSE],
      [tscol |-> "datetime64", index |-> "range", idxname |-> "", price |-> FALSE, hl |-> FALSE],
      [tscol |-> "none", index |-> "datetime", idxname |-> "datetime", price |-> FALSE, hl |-> FALSE] }

\* the table of the given layout whose k-th row is the bar at time
\* TimeOf(order[k]) with close price prices[k] (high = close + 1, low = close)
MakeTable(layout, prices, order) ==
    LET n == Len(prices)
        minutes == [k \in 1..n |-> TimeOf(order[k])]
        cols == (IF layout.tscol # "none" THEN <<Col("timestamp")>> ELSE <<>>)
                \o (IF layout.price THEN <<Col("close")>> ELSE <<Col("open")>>)
                \o (IF layout.hl THEN <<Col("high"), Col("low")>> ELSE <<>>)
        Cells(c) ==
            IF c = Col("timestamp") THEN [k \in 1..n |-> <<layout.tscol, minutes[k]>>]
            ELSE IF c = Col("high") THEN [k \in 1..n |-> Num(prices[k] + 1)]
            ELSE [k \in 1..n |-> Num(prices[k])]
    IN  [index |-> layout.index, idxname |-> layout.idxname,
         idx |-> IF layout.index = "datetime" THEN minutes ELSE <<>>,
         columns |-> cols,
         data |-> [c \in Range(cols) |-> Cells(c)]]

\* the price levels of the bars
PriceLevels == {1, 2}

PriceSeries == UNION { [1..n -> PriceLevels] : n \in 0..MaxLen }

\* the rows arrive in time order or in reverse time order
Orders(n) == { [k \in 1..n |-> k], [k \in 1..n |-> n + 1 - k] }

\* close prices whose two-bar forward slope is exactly +1e-8 or -1e-8 of the
\* window mean (4 * 2 / 800000000)
BoundaryPrices == {399999999, 400000001}

BoundarySeries == [1..3 -> BoundaryPrices]

InputTables ==
    UNION { { MakeTable(x[1], x[2], o) : o \in Orders(Len(x[2])) } :
            x \in Layouts \X PriceSeries }
    \cup { MakeTable(CHOOSE l \in Layouts : l.tscol = "none" /\ l.index = "range" /\ l.price,
                     p, [k \in 1..3 |-> k]) : p \in BoundarySeries }

\* the configured lists (params.yaml: PREDICTION_PERIODS, EMA_PERIODS,
\* SLOPE_PERIODS, Z_NORM_WINDOW)
PeriodLists == {<<>>} \cup { <<p>> : p \in -1..MaxPeriod } \cup { <<2, MaxPeriod>> }

SpanLists == {<<>>} \cup { <<s>> : s \in 0..MaxSpan } \cup { <<MaxSpan, 1>> }

Windows == 0..MaxWindow

(***************************************************************************)
(* The calls                                                               *)
(***************************************************************************)
NoCall == [fn |-> "none", input |-> NoTable, prediction_periods |-> <<>>,
           ema_periods |-> <<>>, slope_periods |-> <<>>, z_norm_window |-> 0]

NoRet == [raised |-> FALSE, table |-> NoTable, feature_list |-> <<>>]

Init ==
    /\ df \in InputTables
    /\ call = NoCall
    /\ ret = NoRet
    /\ runs = 0
    /\ bars = NoTable
    /\ params = NoParams
    /\ processed = NoFiles

\* df = targets.add_normalized_trend_direction(df, prediction_periods, "close")
AddNormalizedTrendDirection(limit) ==
    /\ runs < limit
    /\ \E periods \in PeriodLists :
         LET r == add_normalized_trend_direction(df, periods, Col("close"))
         IN  /\ call' = [NoCall EXCEPT !.fn = "targets", !.input = df,
                                       !.prediction_periods = periods]
             /\ ret' = r
             /\ df' = IF r.raised THEN df ELSE r.table
    /\ runs' = runs + 1
    /\ UNCHANGED <<bars, params, processed>>

\* df, feature_list = features.generate_features(df, ema_periods,
\*                        slope_periods, z_norm_window, "close")
GenerateFeatures(limit) ==
    /\ runs < limit
    /\ \E ema \in SpanLists, slope \in SpanLists, window \in Windows :
         LET r == generate_features(df, ema, slope, window, Col("close"))
         IN  /\ call' = [NoCall EXCEPT !.fn = "features", !.input = df,
                                       !.ema_periods = ema, !.slope_periods = slope,
                                       !.z_norm_window = window]
             /\ ret' = r
             /\ df' = IF r.raised THEN df ELSE r.table
    /\ runs' = runs + 1
    /\ UNCHANGED <<bars, params, processed>>

Next == AddNormalizedTrendDirection(1) \/ GenerateFeatures(1)

Spec == Init /\ [][Next]_vars

(***************************************************************************)
(* Properties of the target computation                                    *)
(***************************************************************************)
TargetsReturned == call.fn = "targets" /\ ~ret.raised

InputPrices == call.input.data[Col("close")]

Trend(period) == ret.table.data[TargetCol(period)]

Label(period) == ret.table.data[DirectionCol(period)]

Periods == Range(call.prediction_periods)

\* the ordinary-least-squares slope of y against 0 .. Len(y)-1:
\* sum((x - xmean)(y - ymean)) / sum((x - xmean)^2)
OlsSlope(y) ==
    LET x == Arange(Len(y))
        xc == Centered(x)
        yc == Centered(y)
    IN  RDiv(RSum([k \in DOMAIN y |-> RMul(xc[k], yc[k])]),
             RSum([k \in DOMAIN y |-> RMul(xc[k], xc[k])]))

ForwardWindow(prices, period, j) == [k \in 1..period |-> prices[j + k]]

\* C1: for every period p >= 2 and every row with p future rows, the target
\* trend is the OLS slope of the forward window divided by the window mean
\* (b / mean for a linear window a + b*k)
C1_OlsSlopeOverMean ==
    TargetsReturned =>
        \A p \in Periods : \A j \in 1..(Len(InputPrices) - p) :
            p >= 2 =>
                Trend(p)[j] = RDiv(OlsSlope(ForwardWindow(InputPrices, p, j)),
                                   Mean(ForwardWindow(InputPrices, p, j)))

\* C2: for every period p >= 2 and every series of length n > p, the target
\* trend is undefined at exactly the last p rows
C2_UndefinedExactlyLastRows ==
    TargetsReturned =>
        \A p \in Periods :
            (p >= 2 /\ Len(InputPrices) > p) =>
                \A j \in 1..Len(InputPrices) :
                    IsNaN(Trend(p)[j]) <=> j > Len(InputPrices) - p

C2_Witness ==
    /\ TargetsReturned
    /\ \E p \in Periods :
         /\ p >= 2
         /\ Len(InputPrices) > p
         /\ IsNaN(Trend(p)[Len(InputPrices) - p + 1])
         /\ ~IsNaN(Trend(p)[Len(InputPrices) - p])

\* a row without a target for period p: p = 1, or fewer than p future rows
NoTarget(p, j) == p = 1 \/ (p > 1 /\ j > Len(InputPrices) - p)

\* C3: at a row without a target both the trend and the direction label are
\* undefined, and no error is raised
C3_BothOutputsUndefined ==
    (call.fn = "targets" /\ HasCol(call.input, Col("close"))
        /\ \A p \in Periods : p >= 1) =>
        /\ ~ret.raised
        /\ \A p \in Periods : \A j \in 1..Len(InputPrices) :
               NoTarget(p, j) => IsNaN(Trend(p)[j]) /\ IsNaN(Label(p)[j])

\* t > 1e-8, for t = n/d: n * 10^8 > d
AboveThreshold(t) == t[1] > 0 /\ (t[2] \div t[1]) < 100000000

\* t < -1e-8
BelowThreshold(t) == t[1] < 0 /\ (t[2] \div (-t[1])) < 100000000

\* C4: where the trend is defined the label is +1 above 1e-8, -1 below
\* -1e-8 and 0 otherwise (the boundary values included); every label is one
\* of -1, 0, +1
C4_DirectionDeadZone ==
    TargetsReturned =>
        \A p \in Periods : \A j \in 1..Len(InputPrices) :
            /\ Label(p)[j] \in {Num(-1), Zero, Num(1)}
            /\ ~IsNaN(Trend(p)[j]) =>
                   Label(p)[j] = IF AboveThreshold(Trend(p)[j]) THEN Num(1)
                                 ELSE IF BelowThreshold(Trend(p)[j]) THEN Num(-1)
                                 ELSE Zero

\* a trend of exactly 1e-8 (or -1e-8), labelled 0
C4_Witness ==
    /\ TargetsReturned
    /\ \E p \in Periods : \E j \in 1..Len(InputPrices) :
         /\ Trend(p)[j] \in {threshold, RNeg(threshold)}
         /\ Label(p)[j] = Zero

(***************************************************************************)
(* A second run on the first run's output                                  *)
(***************************************************************************)
RerunTables ==
    { MakeTable(l, [k \in 1..MaxLen |-> 1 + (k % 2)], [k \in 1..MaxLen |-> MaxLen + 1 - k]) :
        l \in { x \in Layouts : x.price /\ x.hl } }

InitRerun ==
    /\ df \in RerunTables
    /\ call = NoCall
    /\ ret = NoRet
    /\ runs = 0
    /\ bars = NoTable
    /\ params = NoParams
    /\ processed = NoFiles

NextRerun == GenerateFeatures(2)

SpecRerun == InitRerun /\ [][NextRerun]_vars

(***************************************************************************)
(* Runs on tables with high/low columns, for the dependence of each row's  *)
(* features on the rows before it                                          *)
(***************************************************************************)
LeakTables ==
    UNION { { MakeTable(x[1], x[2], o) : o \in Orders(Len(x[2])) } :
            x \in { l \in Layouts : l.price /\ l.hl } \X PriceSeries }

InitLeak ==
    /\ df \in LeakTables
    /\ call = NoCall
    /\ ret = NoRet
    /\ runs = 0
    /\ bars = NoTable
    /\ params = NoParams
    /\ processed = NoFiles

SpecLeak == InitLeak /\ [][Next]_vars

(***************************************************************************)
(* Pipeline runs (main.py) against one processed-output location           *)
(***************************************************************************)
\* the bars file: a DatetimeIndex called "datetime" as data_acquisition.py
\* writes it, or a timestamp column, or both, or neither
BarsFiles ==
    { MakeTable(l, [k \in 1..(MaxLen + 4) |-> 1 + (k % 2)], o) :
        l \in { x \in Layouts : x.price /\ (x.index = "range" \/ x.idxname = "datetime") },
        o \in Orders(MaxLen + 4) }

\* params.yaml, the boundary dates aside
Configurations ==
    { [NoParams EXCEPT !.prediction_periods = c[1], !.ema_periods = c[2],
                       !.slope_periods = c[3], !.z_norm_window = c[4]] :
        c \in {<<1>>, <<2>>} \X {<<>>, <<1>>, <<2>>} \X {<<>>, <<1>>} \X {1, 2} }

Date(k) == <<"str", TimeOf(k)>>

\* boundary dates in order, and a date that is no date
SomeDates == { <<Date(3), Date(4), Date(5)>>, <<Date(3), Unparseable, Date(5)>> }

\* boundary dates in every order, and equal ones
AllDates == { Date(2), Date(3), Date(4) } \X { Date(2), Date(3), Date(4) } \X { Date(3), Date(4), Date(5) }

\* one run of main.py: params.yaml is loaded as it stands at that moment
Main(limit, configurations, dates) ==
    /\ runs < limit
    /\ \E cfg \in configurations :
         \E r \in {Prepared(bars, cfg)} :
             \E d \in dates :
               LET p == [cfg EXCEPT !.train_date = d[1], !.validation_date = d[2],
                                    !.test_date = d[3]]
                   out == Finish(processed, r, p)
               IN  /\ params' = p
                   /\ call' = [NoCall EXCEPT !.fn = "main", !.input = bars,
                                             !.prediction_periods = p.prediction_periods,
                                             !.ema_periods = p.ema_periods,
                                             !.slope_periods = p.slope_periods,
                                             !.z_norm_window = p.z_norm_window]
                   /\ ret' = [raised |-> out.raised, table |-> out.table,
                              feature_list |-> out.feature_list]
                   /\ df' = out.table
                   /\ processed' = out.files
    /\ runs' = runs + 1
    /\ UNCHANGED bars

InitPipeline ==
    /\ df = NoTable
    /\ call = NoCall
    /\ ret = NoRet
    /\ runs = 0
    /\ bars \in BarsFiles
    /\ params = NoParams
    /\ processed = NoFiles

NextPipeline == Main(2, { c \in Configurations : c.z_norm_window = 2 }, SomeDates)

SpecPipeline == InitPipeline /\ [][NextPipeline]_vars

NextSplit == Main(1, Configurations, AllDates)

SpecSplit == InitPipeline /\ [][NextSplit]_vars

(***************************************************************************)
(* Properties of the feature generator                                     *)
(***************************************************************************)
FeaturesReturned == call.fn = "features" /\ ~ret.raised

Out(name) == ret.table.data[name]

Rows == 1..NRows(ret.table)

EmaSpans == Range(call.ema_periods)

SlopeSpans == Range(call.slope_periods)

NoTimestampAxis(t) == ~HasCol(t, Col("timestamp")) /\ t.index # "datetime"

\* a configuration error in the sense of the specification's section 7
ConfigurationError ==
    \/ ~HasCol(call.input, Col("close"))
    \/ NoTimestampAxis(call.input)
    \/ /\ call.fn = "targets"
       /\ (call.prediction_periods = <<>> \/ \E p \in Periods : p <= 0)
    \/ /\ call.fn = "features"
       /\ \/ call.ema_periods = <<>>
          \/ \E s \in EmaSpans \cup SlopeSpans : s <= 0
          \/ call.z_norm_window <= 0

\* C6: every configuration error makes the call fail with an error, with no
\* table returned
C6_ConfigErrorsFailFast ==
    (call.fn # "none" /\ ConfigurationError) => (ret.raised /\ ret.table = NoTable)

\* C7 as claimed: price_normalized, every ema_z and price_z are defined at
\* every row, row 0 included
C7_DefinedAtEveryRow ==
    FeaturesReturned =>
        \A i \in Rows :
            /\ ~IsNaN(Out(Col("price_normalized"))[i])
            /\ ~IsNaNQ(Out(Col("price_z"))[i])
            /\ \A s \in EmaSpans : ~IsNaNQ(Out(SpanCol("ema_z", s))[i])

\* C7, amended: price_normalized is defined at every row; price_z and every
\* ema_z are undefined exactly where the rolling window holds one sample
\* (row 0, and every row when z_norm_window = 1) and defined elsewhere
C7_DefinedWithTwoSamples ==
    FeaturesReturned =>
        \A i \in Rows :
            /\ ~IsNaN(Out(Col("price_normalized"))[i])
            /\ IsNaNQ(Out(Col("price_z"))[i]) <=> (i = 1 \/ call.z_norm_window = 1)
            /\ \A s \in EmaSpans :
                   IsNaNQ(Out(SpanCol("ema_z", s))[i]) <=> (i = 1 \/ call.z_norm_window = 1)

C7_Witness ==
    /\ FeaturesReturned
    /\ call.z_norm_window >= 2
    /\ NRows(ret.table) >= 3
    /\ \E s \in EmaSpans : s >= 2 /\ ~IsNaNQ(Out(SpanCol("ema_z", s))[2])

ConstantInput ==
    /\ HasCol(call.input, Col("close"))
    /\ \A i, j \in DOMAIN InputPrices : InputPrices[i] = InputPrices[j]

\* the value num / (base + 1e-8) is 0
IsZeroQ(q) == ~IsNaNQ(q) /\ q[1] = Zero

\* C8 as claimed, for a constant price: ema_s is the price at every row,
\* return_1m is undefined at row 0 and 0 later, slope_ema_s_normalized is 0
\* at ALL rows, target_trend is 0 except at the last p rows (undefined) and
\* the label is 0 where the trend is defined
C8_ConstantSeries ==
    /\ (FeaturesReturned /\ ConstantInput) =>
          \A i \in Rows :
              /\ IsNaN(Out(Col("return_1m"))[i]) <=> i = 1
              /\ i > 1 => Out(Col("return_1m"))[i] = Zero
              /\ \A s \in EmaSpans \cap SlopeSpans :
                     /\ Out(EmaCol(s))[i] = Out(Col("close"))[i]
                     /\ IsZeroQ(Out(SpanCol("slope_ema_normalized", s))[i])
    /\ (TargetsReturned /\ ConstantInput) =>
          \A p \in Periods : \A j \in 1..Len(InputPrices) :
              (p >= 1 /\ Len(InputPrices) > p) =>
                  /\ IsNaN(Trend(p)[j]) <=> j > Len(InputPrices) - p
                  /\ ~IsNaN(Trend(p)[j]) => Trend(p)[j] = Zero /\ Label(p)[j] = Zero

\* C8, amended: slope_ema_s_normalized is undefined at row 0 and 0 at every
\* later row, and the statement about the targets is for periods p >= 2
C8_ConstantSeriesAmended ==
    /\ (FeaturesReturned /\ ConstantInput) =>
          \A i \in Rows :
              /\ IsNaN(Out(Col("return_1m"))[i]) <=> i = 1
              /\ i > 1 => Out(Col("return_1m"))[i] = Zero
              /\ \A s \in EmaSpans \cap SlopeSpans :
                     /\ Out(EmaCol(s))[i] = Out(Col("close"))[i]
                     /\ IsNaNQ(Out(SpanCol("slope_ema_normalized", s))[i]) <=> i = 1
                     /\ i > 1 => IsZeroQ(Out(SpanCol("slope_ema_normalized", s))[i])
    /\ (TargetsReturned /\ ConstantInput) =>
          \A p \in Periods : \A j \in 1..Len(InputPrices) :
              (p >= 2 /\ Len(InputPrices) > p) =>
                  /\ IsNaN(Trend(p)[j]) <=> j > Len(InputPrices) - p
                  /\ ~IsNaN(Trend(p)[j]) => Trend(p)[j] = Zero /\ Label(p)[j] = Zero

C8_Witness ==
    /\ FeaturesReturned
    /\ ConstantInput
    /\ NRows(ret.table) >= 3
    /\ \E s \in EmaSpans \cap SlopeSpans :
         /\ s >= 2
         /\ Out(EmaCol(s))[3] = Out(Col("close"))[3]
         /\ IsZeroQ(Out(SpanCol("slope_ema_normalized", s))[3])

SlopeCols(s) ==
    { SpanCol("slope_ema", s), SpanCol("slope_ema_normalized", s),
      SpanCol("slope2_ema", s), SpanCol("slope2_ema_normalized", s) }

\* the columns the call added to its input
AddedCols == Range(ret.table.columns) \ Range(call.input.columns)

\* C9 as claimed: a slope span that is not among the EMA spans of the call
\* gets no slope columns and no feature names, for any input table
C9_NoSlopeWithoutEmaSpan ==
    FeaturesReturned =>
        \A s \in SlopeSpans \ EmaSpans :
            /\ SlopeCols(s) \cap AddedCols = {}
            /\ SlopeCols(s) \cap Range(ret.feature_list) = {}

\* C9, amended: a slope span that is not among the EMA spans of the call and
\* for which the input table holds no ema_{s}m column gets no slope columns
\* and no feature names; the slope spans never make the call fail
C9_NoSlopeWithoutEmaColumn ==
    /\ FeaturesReturned =>
          \A s \in SlopeSpans \ EmaSpans :
              ~HasCol(call.input, EmaCol(s)) =>
                  /\ SlopeCols(s) \cap AddedCols = {}
                  /\ SlopeCols(s) \cap Range(ret.feature_list) = {}
    /\ (/\ call.fn = "features"
        /\ HasCol(call.input, Col("close"))
        /\ ~NoTimestampAxis(call.input)
        /\ call.z_norm_window >= 1
        /\ \A s \in EmaSpans : s >= 1) => ~ret.raised

\* a second run whose unmatched slope span is skipped although the table
\* holds another EMA column from the first run
C9_Witness ==
    /\ FeaturesReturned
    /\ runs = 2
    /\ \E s \in SlopeSpans \ EmaSpans :
         /\ s >= 1
         /\ ~HasCol(call.input, EmaCol(s))
         /\ \E c \in Range(call.input.columns) : c[1] = "ema"
         /\ SlopeCols(s) \cap Range(ret.table.columns) = {}

\* the timestamp (minute) of input row j
InputMinute(j) ==
    IF HasCol(call.input, Col("timestamp"))
    THEN call.input.data[Col("timestamp")][j][2]
    ELSE call.input.idx[j]

\* C10: whichever way the timestamp axis came, the returned table has
\* timestamp as an ordinary column aligned with the rows, a positional
\* index, and its rows in ascending timestamp order
C10_TimestampColumn ==
    FeaturesReturned =>
        /\ HasCol(ret.table, Col("timestamp"))
        /\ ret.table.index = "range" /\ ret.table.idx = <<>>
        /\ Len(Out(Col("timestamp"))) = Len(InputPrices)
        /\ \A k \in Rows :
               /\ Out(Col("timestamp"))[k][1] = "datetime64"
               /\ k > 1 => Out(Col("timestamp"))[k - 1][2] < Out(Col("timestamp"))[k][2]
               /\ \E j \in DOMAIN InputPrices :
                      /\ InputMinute(j) = Out(Col("timestamp"))[k][2]
                      /\ InputPrices[j] = Out(Col("close"))[k]

\* the axis came as a named DatetimeIndex, in reverse time order
C10_Witness ==
    /\ FeaturesReturned
    /\ ~HasCol(call.input, Col("timestamp"))
    /\ call.input.idxname = "datetime"
    /\ Len(InputPrices) >= 2
    /\ call.input.idx[1] > call.input.idx[2]
    /\ Out(Col("timestamp"))[1] = Stamp(call.input.idx[Len(InputPrices)])

(***************************************************************************)
(* No look-ahead                                                           *)
(***************************************************************************)
\* the number of rows of t that are not later than row r
TimeRank(t, r) ==
    LET minute(j) == IF HasCol(t, Col("timestamp")) THEN t.data[Col("timestamp")][j][2]
                     ELSE t.idx[j]
    IN  Cardinality({ j \in 1..NRows(t) : minute(j) <= minute(r) })

\* the table t without the rows later than its i-th row in time
EarliestRows(t, i) ==
    LET kept == SelectSeq([k \in 1..NRows(t) |-> k], LAMBDA r : TimeRank(t, r) <= i)
    IN  [t EXCEPT !.data = [c \in DOMAIN @ |-> [k \in DOMAIN kept |-> @[c][kept[k]]]],
                  !.idx = IF Len(@) = 0 THEN @ ELSE [k \in DOMAIN kept |-> @[kept[k]]]]

FeaturesOfEarliest(i) ==
    generate_features(EarliestRows(call.input, i), call.ema_periods, call.slope_periods,
                      call.z_norm_window, Col("close"))

\* the target of a row computed from the forward window alone, behind a row
\* of price c
TrendOfWindow(p, j, c) ==
    compute_normalized_slope(<<Num(c)>> \o ForwardWindow(InputPrices, p, j), p).slopes[1]

\* C5: every column the feature generator returns has at row i (in
\* timestamp order) the value it has when the input ends at row i, so two
\* inputs that agree on rows 0..i agree on it; the target of period p at
\* row i is the one computed from the prices at rows i+1..i+p alone
C5_NoLookahead ==
    /\ FeaturesReturned =>
          \A i \in Rows :
              LET cut == FeaturesOfEarliest(i)
              IN  /\ ~cut.raised
                  /\ \A c \in Range(ret.table.columns) : cut.table.data[c][i] = Out(c)[i]
    /\ TargetsReturned =>
          \A p \in Periods : \A j \in 1..(Len(InputPrices) - p) : \A c \in PriceLevels :
              p >= 2 =>
                  /\ Trend(p)[j] = TrendOfWindow(p, j, c)
                  /\ Label(p)[j] = Direction(TrendOfWindow(p, j, c))

\* rows arriving in reverse time order, prices that change after row 0, and
\* the slopes of an EMA among the features
C5_Witness ==
    /\ FeaturesReturned
    /\ NRows(ret.table) >= 3
    /\ InputMinute(1) > InputMinute(2)
    /\ Out(Col("close"))[1] # Out(Col("close"))[2]
    /\ Out(Col("close"))[2] # Out(Col("close"))[3]
    /\ \E s \in EmaSpans \cap SlopeSpans :
         s >= 2 /\ ~IsNaNQ(Out(SpanCol("slope2_ema_normalized", s))[3])

(***************************************************************************)
(* Properties of the pipeline runs                                         *)
(***************************************************************************)
Completed == call.fn = "main" /\ ~ret.raised

FeatureFile == processed.features_txt

\* the content holds exactly the names, in order, each followed by a line end
OneNamePerLine(content, names) ==
    /\ Len(content) = 2 * Len(names)
    /\ \A k \in DOMAIN names : content[(2 * k) - 1] = names[k] /\ content[2 * k] = NL

\* the lines of a file
Lines(content) == { content[k] : k \in { j \in DOMAIN content : content[j] # NL } }

\* C11: features.txt is written only by a run that finds it absent - every
\* run that gets as far as the feature list then writes it, one name per
\* line in feature-list order - and once it exists no run changes it
C11_FeatureFileWrittenOnce ==
    [][ /\ (FeatureFile # Absent) => (FeatureFile' = FeatureFile)
        /\ (FeatureFile = Absent /\ FeatureFile' # Absent) =>
               /\ ~Prepared(bars, params').raised
               /\ OneNamePerLine(FeatureFile', Prepared(bars, params').feature_list)
        /\ (FeatureFile = Absent /\ ~ret'.raised) => (FeatureFile' # Absent) ]_vars

\* a second completed run, configured otherwise, has left the first run's
\* features.txt as it was
C11_Witness ==
    /\ runs = 2
    /\ Completed
    /\ FeatureFile # Absent
    /\ ~OneNamePerLine(FeatureFile, ret.feature_list)

\* C12: after every completed run, every name in features.txt is a column of
\* the three files the run wrote, and every feature name the run generated
\* is in features.txt
C12_FeatureListMatchesData ==
    Completed =>
        /\ processed.written
        /\ \A name \in Lines(FeatureFile) :
               /\ HasCol(processed.train, name)
               /\ HasCol(processed.validation, name)
               /\ HasCol(processed.test, name)
        /\ Range(ret.feature_list) \subseteq Lines(FeatureFile)

RowsOf(t) == { [c \in Range(t.columns) |-> t.data[c][i]] : i \in 1..NRows(t) }

Stamps(t) == { Ts(t, i) : i \in 1..NRows(t) }

\* C13: whatever the boundary dates, the three partitions are pairwise
\* disjoint, every train timestamp is earlier than every validation
\* timestamp and every validation timestamp earlier than every test
\* timestamp, and every persisted row is a row of the pruned table and
\* holds no undefined value
C13_ChronologicalSplit ==
    Completed =>
        /\ RowsOf(processed.train) \cap RowsOf(processed.validation) = {}
        /\ RowsOf(processed.train) \cap RowsOf(processed.test) = {}
        /\ RowsOf(processed.validation) \cap RowsOf(processed.test) = {}
        /\ \A a \in Stamps(processed.train), b \in Stamps(processed.validation) : a < b
        /\ \A b \in Stamps(processed.validation), c \in Stamps(processed.test) : b < c
        /\ \A a \in Stamps(processed.train), c \in Stamps(processed.test) : a < c
        /\ \A r \in RowsOf(processed.train) \cup RowsOf(processed.validation)
                      \cup RowsOf(processed.test) :
               /\ r \in RowsOf(df)
               /\ \A c \in DOMAIN r : ~isna(c, r[c])

====
